---- MODULE Spec2Model ----
(***************************************************************************)
(* Model of the libcamera capture examples onecam_frame.cpp (continuous    *)
(* capture) and onecam_capture.cpp (save the first frame, then stop):      *)
(* the request/completion pipeline, the run controller in main, the SIGINT *)
(* handler, the pixel-format table and the raw frame writer.               *)
(***************************************************************************)
EXTENDS Integers, Sequences, FiniteSets, TLC

\* ------------------------------------------------------------------ bounds
NumRequests == 2      \* buffers the allocator hands out (device-determined)
MaxFrames   == 10     \* completions the device delivers with status Complete
MaxWidth    == 3      \* writer inputs: image width in pixels
MaxHeight   == 2      \* writer inputs: image height in rows
MaxStride   == 4      \* writer inputs: physical row stride in bytes
MaxPlaneLen == 9      \* writer inputs: length of plane 0 in bytes

\* ------------------------------------------------------ program constants
StatusEvery       == 10   \* "Print every 10th frame"
FrameTimeoutSec   == 10   \* onecam_frame: auto-stop after 10 seconds
CaptureTimeoutSec == 5    \* onecam_capture: timeout after 5 seconds

Requests == 1..NumRequests

\* ------------------------------------------------- pixel format tag strings
\* A tag is the character sequence PixelFormat::toString() returns.
XRGB8888 == <<"X","R","G","B","8","8","8","8">>
ARGB8888 == <<"A","R","G","B","8","8","8","8">>
XBGR8888 == <<"X","B","G","R","8","8","8","8">>
ABGR8888 == <<"A","B","G","R","8","8","8","8">>
RGB888   == <<"R","G","B","8","8","8">>
BGR888   == <<"B","G","R","8","8","8">>
YUYV     == <<"Y","U","Y","V">>
UYVY     == <<"U","Y","V","Y">>
YUV420   == <<"Y","U","V","4","2","0">>
YV12     == <<"Y","V","1","2">>
NV12     == <<"N","V","1","2">>
NV21     == <<"N","V","2","1">>
MJPEG    == <<"M","J","P","E","G">>
R8       == <<"R","8">>

Tags == {XRGB8888, ARGB8888, XBGR8888, ABGR8888, RGB888, BGR888, YUYV, UYVY,
         YUV420, YV12, NV12, NV21, MJPEG, R8, <<>>}

\* formatStr.find(needle) != std::string::npos
Find(hay, needle) ==
  \E i \in 1..(Len(hay) - Len(needle) + 1) :
     SubSeq(hay, i, i + Len(needle) - 1) = needle

\* detectFormatDetails: plane count from the tag
NumPlanesOf(fmt) ==
  IF Find(fmt, YUV420) \/ Find(fmt, YV12) THEN 3
  ELSE IF Find(fmt, NV12) \/ Find(fmt, NV21) THEN 2
  ELSE 1

\* detectFormatDetails: bits per pixel from the tag
BitsPerPixelOf(fmt) ==
  IF Find(fmt, XRGB8888) \/ Find(fmt, ARGB8888) \/ Find(fmt, XBGR8888) THEN 32
  ELSE IF Find(fmt, RGB888) \/ Find(fmt, BGR888) THEN 24
  ELSE IF Find(fmt, YUYV) \/ Find(fmt, UYVY) THEN 16
  ELSE IF Find(fmt, YUV420) \/ Find(fmt, NV12) THEN 12
  ELSE 8

\* --------------------------------------------------------- the frame writer
\* uint32_t arithmetic.  Every value of the model stays far below 2^31 (the
\* largest integer TLC represents), where unsigned 32-bit arithmetic does not
\* wrap, so the reduction modulo 2^32 is the identity on the modelled range.
U32(x) == x

\* imageWidth * (bitsPerPixel / 8), uint32_t
BytesPerRow(w, bpp) == U32(w * (bpp \div 8))

\* the mapped plane holds a marker pattern: the byte at offset i is i mod 256
SrcByte(off) == off % 256

\* values a read past the end of the mapping may yield when it does not fault
GarbageBytes == {0, 255}

\* file.write((char *)mem, plane0.length)
FastPathBytes(len) == [i \in 1..len |-> SrcByte(i - 1)]

\* one row: file.write((char *)(data + row * imageStride), bytesPerRow);
\* offsets at or past len are outside the mapping and read g
RowBytes(row, stride, bpr, len, g) ==
  [j \in 1..bpr |->
     IF U32(row * stride) + (j - 1) < len
     THEN SrcByte(U32(row * stride) + (j - 1)) ELSE g]

RECURSIVE RowCopyBytes(_, _, _, _, _)
\* rows 0 .. h-1 in order
RowCopyBytes(h, stride, bpr, len, g) ==
  IF h = 0 THEN <<>>
  ELSE RowCopyBytes(h - 1, stride, bpr, len, g)
         \o RowBytes(h - 1, stride, bpr, len, g)

\* does row `row` touch an offset outside the mapping
RowOverReads(row, stride, bpr, len) ==
  bpr > 0 /\ U32(row * stride) + bpr - 1 >= len

\* rows the loop completes before the first row that leaves the mapping
RowsBeforeFault(h, stride, bpr, len) ==
  Cardinality({r \in 0..(h - 1) :
                 \A q \in 0..r : ~RowOverReads(q, stride, bpr, len)})


\* ------------------------------------------------------------------- state
VARIABLES
  prog,            \* "frame" (onecam_frame), "capture" (onecam_capture), "writer"
  serialized,      \* the device delivers one completion callback at a time
  config, planeLen,\* stream configuration and plane 0 as the device reports them
  wpc,             \* position of the writer harness
  pcMain,          \* position of main
  retCode,         \* value main returned
  qi,              \* index of the initial queueing loop
  elapsed,         \* whole seconds since captureStart
  devState,        \* camera: "Idle", "Running", "Stopped"
  queued,          \* request is held by the device
  reqStatus,       \* Request::status() of each request
  sigInstalled,    \* signal(SIGINT, signalHandler) was called
  buffersFreed, deviceReleased,
  running, frameCount, frameSaved, saveNextFrame,
  timeoutReported, \* "Timeout waiting for frame" was printed
  statusLines,     \* frame counts printed by the periodic status line
  reportedFrames,  \* frame count main printed at teardown (-1: none)
  pixelFormat, imageWidth, imageHeight, imageStride, bitsPerPixel, numPlanes,
  wrStatus, fileBytes, persisted,     \* result of saveFrameAsRAW
  rowBytes,        \* row width saveFrameAsRAW compared the stride with (-1: none)
  overRead,        \* observation: the writer read outside the mapping
  saveCalls,       \* observation: invocations of saveFrameAsRAW
  cbpc,            \* position of the completion callback running for a request
  firstCb,         \* observation: callback of the first RequestComplete
                   \* completion; 0: none yet, r: runs for r, -1: returned
  \* observation (history) variables
  sigFired,        \* signalHandler has run
  timedOut,        \* the wait loop's timeout branch has run
  initSubmits,     \* calls of queueRequest by the initial loop, per request
  dupSubmit,       \* a request was queued while the device still held it
  delivered        \* completions delivered with status RequestComplete

envVars    == <<prog, serialized, config, planeLen, wpc>>
mainVars   == <<pcMain, retCode, qi, elapsed>>
lifeVars   == <<sigInstalled, buffersFreed, deviceReleased>>
flagVars   == <<running, frameCount, frameSaved, saveNextFrame>>
outVars    == <<timeoutReported, statusLines, reportedFrames>>
formatVars == <<pixelFormat, imageWidth, imageHeight, imageStride,
                bitsPerPixel, numPlanes>>
writerVars == <<wrStatus, fileBytes, persisted, rowBytes, overRead, saveCalls>>
cbVars     == <<cbpc, firstCb>>
submitVars == <<initSubmits, dupSubmit>>
histVars   == <<sigFired, timedOut, delivered>>
vars == <<envVars, mainVars, devState, queued, reqStatus, lifeVars, flagVars,
          outVars, formatVars, writerVars, cbVars, submitVars, histVars>>

\* ------------------------------------------------------------ configurations
Configs ==
  [pixelFormat : Tags, width : 1..MaxWidth, height : 1..MaxHeight,
   stride : 1..MaxStride]

\* the configuration the sessions run with: 1x1 XRGB8888, stride 4
SessionConfig ==
  [pixelFormat |-> XRGB8888, width |-> 1, height |-> 1, stride |-> 4]
SessionPlaneLen == 4

\* statics of both programs after construction
InitCommon ==
  /\ retCode = 0 /\ qi = 1 /\ elapsed = 0 /\ devState = "Idle"
  /\ running = TRUE /\ frameCount = 0 /\ frameSaved = FALSE
  /\ saveNextFrame = FALSE
  /\ reqStatus = [r \in Requests |-> "RequestPending"]
  /\ queued = [r \in Requests |-> FALSE]
  /\ cbpc = [r \in Requests |-> "none"]
  /\ sigInstalled = FALSE /\ buffersFreed = FALSE /\ deviceReleased = FALSE
  /\ timeoutReported = FALSE /\ statusLines = <<>> /\ reportedFrames = -1
  /\ pixelFormat = <<>> /\ imageWidth = 0 /\ imageHeight = 0
  /\ imageStride = 0 /\ bitsPerPixel = 0 /\ numPlanes = 0
  /\ wrStatus = "none" /\ fileBytes = <<>> /\ persisted = 0
  /\ rowBytes = -1
  /\ sigFired = FALSE /\ timedOut = FALSE
  /\ initSubmits = [r \in Requests |-> 0]
  /\ dupSubmit = FALSE
  /\ overRead = FALSE /\ delivered = 0 /\ firstCb = 0 /\ saveCalls = 0

Init ==
  /\ prog \in {"frame", "capture"}
  /\ serialized \in BOOLEAN
  /\ pcMain = "mgrStart"
  /\ wpc = "off"
  /\ config = SessionConfig
  /\ planeLen = SessionPlaneLen
  /\ InitCommon

InitWriter ==
  /\ prog = "writer"
  /\ serialized = TRUE
  /\ pcMain = "off"
  /\ wpc = "detect"
  /\ config \in Configs
  /\ planeLen \in 1..MaxPlaneLen
  /\ InitCommon

\* ------------------------------------------------------ detectFormatDetails
DetectFormatDetails ==
  /\ pixelFormat' = config.pixelFormat
  /\ imageWidth' = config.width
  /\ imageHeight' = config.height
  /\ imageStride' = config.stride
  /\ numPlanes' = NumPlanesOf(config.pixelFormat)
  /\ bitsPerPixel' = BitsPerPixelOf(config.pixelFormat)

\* ----------------------------------------------------------- saveFrameAsRAW
\* does the row loop leave the mapping
LoopOverReads ==
  \E r \in 0..(imageHeight - 1) :
     RowOverReads(r, imageStride, BytesPerRow(imageWidth, bitsPerPixel),
                  planeLen)

\* mmapOk: mmap did not return MAP_FAILED; openOk: file.is_open();
\* a read outside the mapping is undefined: it faults (faults) or yields g
SaveFrameBody(mmapOk, openOk, faults, g) ==
  LET bpr == BytesPerRow(imageWidth, bitsPerPixel) IN
  IF ~mmapOk THEN
    /\ wrStatus' = "mmapFailed"
    /\ UNCHANGED <<fileBytes, persisted, rowBytes, overRead>>
  ELSE IF ~openOk THEN
    /\ wrStatus' = "openFailed"
    /\ UNCHANGED <<fileBytes, persisted, rowBytes, overRead>>
  ELSE
    /\ rowBytes' = bpr
    /\ IF imageStride = bpr THEN
         /\ wrStatus' = "written"
         /\ fileBytes' = FastPathBytes(planeLen)
         /\ persisted' = persisted + 1
         /\ UNCHANGED overRead
       ELSE IF ~LoopOverReads THEN
         /\ wrStatus' = "written"
         /\ fileBytes' = RowCopyBytes(imageHeight, imageStride, bpr,
                                      planeLen, 0)
         /\ persisted' = persisted + 1
         /\ UNCHANGED overRead
       ELSE IF faults THEN
         /\ wrStatus' = "fault"
         /\ fileBytes' = RowCopyBytes(RowsBeforeFault(imageHeight,
                                        imageStride, bpr, planeLen),
                                      imageStride, bpr, planeLen, 0)
         /\ overRead' = TRUE
         /\ UNCHANGED persisted
       ELSE
         /\ wrStatus' = "written"
         /\ fileBytes' = RowCopyBytes(imageHeight, imageStride, bpr,
                                      planeLen, g)
         /\ persisted' = persisted + 1
         /\ overRead' = TRUE

\* one invocation of saveFrameAsRAW(buffer, metadata)
SaveFrameAsRAW(mmapOk, openOk, faults, g) ==
  /\ saveCalls' = saveCalls + 1
  /\ SaveFrameBody(mmapOk, openOk, faults, g)

\* ----------------------------------------------------------- writer harness
WriterDetect ==
  /\ wpc = "detect"
  /\ DetectFormatDetails
  /\ wpc' = "save"
  /\ UNCHANGED <<prog, serialized, config, planeLen, mainVars, devState,
                 queued, reqStatus, lifeVars, flagVars, outVars, writerVars,
                 cbVars, submitVars, histVars>>

WriterSave ==
  /\ wpc = "save"
  /\ \E mmapOk \in BOOLEAN, openOk \in BOOLEAN, faults \in BOOLEAN,
        g \in GarbageBytes :
        SaveFrameAsRAW(mmapOk, openOk, faults, g)
  /\ wpc' = "done"
  /\ UNCHANGED <<prog, serialized, config, planeLen, mainVars, devState,
                 queued, reqStatus, lifeVars, flagVars, outVars, formatVars,
                 cbVars, submitVars, histVars>>

NextWriter == WriterDetect \/ WriterSave

SpecWriter == InitWriter /\ [][NextWriter]_vars

\* ------------------------------------------------------------ the sessions
Alive == pcMain \notin {"exit", "crashed", "off"}

\* the wait loop's bound, in seconds
TimeoutSec == IF prog = "frame" THEN FrameTimeoutSec ELSE CaptureTimeoutSec

\* readings of duration_cast<seconds>(now - captureStart) the model samples:
\* the start, the last second before the bound and the bound itself (every
\* reading below the bound takes the same branch of the loop)
ClockSamples == {0, TimeoutSec - 1, TimeoutSec}

\* variant: the cancelled check is missing
IsCancelledNever(st) == FALSE

\* request->status() == Request::RequestCancelled
IsCancelled(st) == st = "RequestCancelled"

\* variant: the initial loop queues the first request in every iteration
InitialTargetFirst(i) == 1

\* the request the initial loop queues in iteration i
InitialTarget(i) == i

\* variant: the increment is lost
IncrementLost(c) == c

\* frameCount++ on std::atomic<uint32_t>: one indivisible read-modify-write
Increment(c) == U32(c + 1)

\* variant: every completion is saved
ShouldSaveAlways(snf, fc) == TRUE

\* onecam_capture: saveNextFrame || frameCount == 1
ShouldSave(snf, fc) == snf \/ fc = 1

\* variant: the callback never stops the session
StopAfterSaveNever(fs) == FALSE

\* onecam_capture: if (frameSaved)  -- "Stop after saving first frame"
StopAfterSave(fs) == fs

\* variant: the callback queues the first request of the pool
RequeueTargetFirst(r) == 1

\* the request the completion callback for r queues again
RequeueTarget(r) == r

\* variant: the buffers are freed before the stream is stopped
TeardownSuccFreeFirst(pc) ==
  CASE pc = "stats"   -> "free"
    [] pc = "free"    -> "stop"
    [] pc = "stop"    -> "release"
    [] pc = "release" -> "exit"

\* order of the steps of main from the final statistics on
TeardownSucc(pc) ==
  CASE pc = "stats"   -> "stop"
    [] pc = "stop"    -> "free"
    [] pc = "free"    -> "release"
    [] pc = "release" -> "exit"

\* camera->queueRequest(request); accept: the device takes the request
QueueRequest(r, accept) ==
  /\ dupSubmit' = (dupSubmit \/ queued[r])
  /\ queued' = IF devState = "Running" /\ accept
               THEN [queued EXCEPT ![r] = TRUE] ELSE queued

\* signalHandler(SIGINT)
SignalHandler ==
  /\ Alive /\ sigInstalled
  /\ running' = FALSE
  /\ sigFired' = TRUE
  /\ UNCHANGED <<envVars, mainVars, devState, queued, reqStatus, lifeVars,
                 frameCount, frameSaved, saveNextFrame, outVars, formatVars,
                 writerVars, cbVars, submitVars, timedOut, delivered>>

\* ---- the device
\* the contexts requestCompleted is emitted from when deliveries overlap: the
\* camera manager's thread and one further context; a serialized device uses
\* the first alone
DeliveryThreads == {"manager", "second"}

InCallback == {q \in Requests : cbpc[q] # "none"}

CallbackFree ==
  Cardinality(InCallback) < (IF serialized THEN 1 ELSE Cardinality(DeliveryThreads))

\* the device completes a queued request and calls requestComplete
DeviceComplete ==
  \E r \in Requests :
    /\ Alive /\ devState = "Running" /\ queued[r] /\ cbpc[r] = "none"
    /\ CallbackFree
    /\ delivered < MaxFrames
    /\ queued' = [queued EXCEPT ![r] = FALSE]
    /\ reqStatus' = [reqStatus EXCEPT ![r] = "RequestComplete"]
    /\ cbpc' = [cbpc EXCEPT ![r] = "entry"]
    /\ delivered' = delivered + 1
    /\ firstCb' = IF delivered = 0 THEN r ELSE firstCb
    /\ UNCHANGED <<envVars, mainVars, devState, lifeVars, flagVars, outVars,
                   formatVars, writerVars, submitVars, sigFired, timedOut>>

\* after camera->stop() the device hands back what it still holds, cancelled
DeviceCancel ==
  \E r \in Requests :
    /\ Alive /\ devState = "Stopped" /\ queued[r] /\ cbpc[r] = "none"
    /\ CallbackFree
    /\ queued' = [queued EXCEPT ![r] = FALSE]
    /\ reqStatus' = [reqStatus EXCEPT ![r] = "RequestCancelled"]
    /\ cbpc' = [cbpc EXCEPT ![r] = "entry"]
    /\ UNCHANGED <<envVars, mainVars, devState, lifeVars, flagVars, outVars,
                   formatVars, writerVars, firstCb, submitVars, histVars>>

\* ---- requestComplete, one action per step
\* the callback for r returns
CbReturns(r) ==
  /\ cbpc' = [cbpc EXCEPT ![r] = "none"]
  /\ firstCb' = IF firstCb = r THEN -1 ELSE firstCb

CbGoto(r, pc) ==
  /\ cbpc' = [cbpc EXCEPT ![r] = pc]
  /\ UNCHANGED firstCb

\* if (request->status() == Request::RequestCancelled) return;
\* frameCount++;
CbEntry ==
  \E r \in Requests :
    /\ Alive /\ cbpc[r] = "entry"
    /\ IF IsCancelled(reqStatus[r])
       THEN /\ CbReturns(r)
            /\ UNCHANGED frameCount
       ELSE /\ frameCount' = Increment(frameCount)
            /\ CbGoto(r, IF prog = "capture" THEN "decide" ELSE "report")
    /\ UNCHANGED <<envVars, mainVars, devState, queued, reqStatus, lifeVars,
                   running, frameSaved, saveNextFrame, outVars, formatVars,
                   writerVars, submitVars, sigFired, timedOut, delivered>>

\* onecam_capture: if (saveNextFrame || frameCount == 1)
CbDecide ==
  \E r \in Requests :
    /\ Alive /\ cbpc[r] = "decide"
    /\ CbGoto(r, IF ShouldSave(saveNextFrame, frameCount) THEN "save"
                 ELSE "report")
    /\ UNCHANGED <<envVars, mainVars, devState, queued, reqStatus, lifeVars,
                   flagVars, outVars, formatVars, writerVars, submitVars,
                   histVars>>

\* onecam_capture: saveFrameAsRAW(buffer, metadata); saveNextFrame = false;
\* frameSaved = true;   (a faulting read ends the process instead)
CbSave ==
  \E r \in Requests :
    /\ Alive /\ cbpc[r] = "save"
    /\ \E mmapOk \in BOOLEAN, openOk \in BOOLEAN, faults \in BOOLEAN,
          g \in GarbageBytes :
          SaveFrameAsRAW(mmapOk, openOk, faults, g)
    /\ IF wrStatus' = "fault"
       THEN /\ pcMain' = "crashed"
            /\ UNCHANGED <<saveNextFrame, frameSaved>>
       ELSE /\ saveNextFrame' = FALSE
            /\ frameSaved' = TRUE
            /\ UNCHANGED pcMain
    /\ CbGoto(r, "report")
    /\ UNCHANGED <<envVars, retCode, qi, elapsed, devState, queued,
                   reqStatus, lifeVars, running, frameCount, outVars,
                   formatVars, submitVars, histVars>>

\* if (frameCount % 10 == 0)
CbReport ==
  \E r \in Requests :
    /\ Alive /\ cbpc[r] = "report"
    /\ CbGoto(r, IF frameCount % StatusEvery = 0 THEN "print"
                 ELSE IF prog = "capture" THEN "chkSaved" ELSE "chkRunning")
    /\ UNCHANGED <<envVars, mainVars, devState, queued, reqStatus, lifeVars,
                   flagVars, outVars, formatVars, writerVars, submitVars,
                   histVars>>

\* printf(" seq: ... | frames: %u ...", ..., frameCount.load(), fps);
CbPrint ==
  \E r \in Requests :
    /\ Alive /\ cbpc[r] = "print"
    /\ statusLines' = Append(statusLines, frameCount)
    /\ CbGoto(r, IF prog = "capture" THEN "chkSaved" ELSE "chkRunning")
    /\ UNCHANGED <<envVars, mainVars, devState, queued, reqStatus, lifeVars,
                   flagVars, timeoutReported, reportedFrames, formatVars,
                   writerVars, submitVars, histVars>>

\* onecam_capture: if (frameSaved) { running = false; return; }
CbChkSaved ==
  \E r \in Requests :
    /\ Alive /\ cbpc[r] = "chkSaved"
    /\ IF StopAfterSave(frameSaved)
       THEN running' = FALSE /\ CbReturns(r)
       ELSE UNCHANGED running /\ CbGoto(r, "chkRunning")
    /\ UNCHANGED <<envVars, mainVars, devState, queued, reqStatus, lifeVars,
                   frameCount, frameSaved, saveNextFrame, outVars, formatVars,
                   writerVars, submitVars, histVars>>

\* if (running)
CbChkRunning ==
  \E r \in Requests :
    /\ Alive /\ cbpc[r] = "chkRunning"
    /\ IF running THEN CbGoto(r, "requeue") ELSE CbReturns(r)
    /\ UNCHANGED <<envVars, mainVars, devState, queued, reqStatus, lifeVars,
                   flagVars, outVars, formatVars, writerVars, submitVars,
                   histVars>>

\* request->reuse(Request::ReuseBuffers); camera->queueRequest(request);
CbRequeue ==
  \E r \in Requests, accept \in BOOLEAN :
    /\ Alive /\ cbpc[r] = "requeue"
    /\ reqStatus' = [reqStatus EXCEPT ![RequeueTarget(r)] = "RequestPending"]
    /\ QueueRequest(RequeueTarget(r), accept)
    /\ CbReturns(r)
    /\ UNCHANGED <<envVars, mainVars, devState, lifeVars, flagVars, outVars,
                   formatVars, writerVars, initSubmits, histVars>>

\* ---- main, one action per step
mainOther == <<envVars, reqStatus, frameCount, frameSaved, saveNextFrame,
               statusLines, writerVars, cbVars, sigFired, delivered>>

\* return from main with value code
MainReturn(code) ==
  /\ pcMain' = "exit"
  /\ retCode' = code

\* cameraManager->start(); EXIT_FAILURE when it fails
MainMgrStart ==
  /\ pcMain = "mgrStart"
  /\ \E ok \in BOOLEAN :
        IF ok THEN pcMain' = "cameras" /\ UNCHANGED retCode
        ELSE MainReturn(1)
  /\ UNCHANGED <<mainOther, qi, elapsed, devState, queued, lifeVars, running,
                 timeoutReported, reportedFrames, formatVars, submitVars,
                 timedOut>>

\* cameras.empty(): stop the manager and fail; else get and acquire cameras[0]
MainCameras ==
  /\ pcMain = "cameras"
  /\ \E found \in BOOLEAN :
        IF found THEN pcMain' = "configure" /\ UNCHANGED retCode
        ELSE MainReturn(1)
  /\ UNCHANGED <<mainOther, qi, elapsed, devState, queued, lifeVars, running,
                 timeoutReported, reportedFrames, formatVars, submitVars,
                 timedOut>>

\* generateConfiguration, validate, (onecam_capture: detectFormatDetails),
\* configure
MainConfigure ==
  /\ pcMain = "configure"
  /\ IF prog = "capture" THEN DetectFormatDetails ELSE UNCHANGED formatVars
  /\ pcMain' = "allocate"
  /\ UNCHANGED <<mainOther, retCode, qi, elapsed, devState, queued, lifeVars,
                 running, timeoutReported, reportedFrames, submitVars,
                 timedOut>>

\* allocator->allocate(cfg.stream()); return -ENOMEM when it fails
MainAllocate ==
  /\ pcMain = "allocate"
  /\ \E ok \in BOOLEAN :
        IF ok THEN pcMain' = "createRequests" /\ UNCHANGED retCode
        ELSE MainReturn(-12)
  /\ UNCHANGED <<mainOther, qi, elapsed, devState, queued, lifeVars, running,
                 timeoutReported, reportedFrames, formatVars, submitVars,
                 timedOut>>

\* createRequest and addBuffer for every buffer; return on the first failure
MainCreateRequests ==
  /\ pcMain = "createRequests"
  /\ \E res \in {"ok", "noRequest", "noBuffer"} :
        IF res = "ok" THEN pcMain' = "install" /\ UNCHANGED retCode
        ELSE IF res = "noRequest" THEN MainReturn(-12)
        ELSE MainReturn(-22)
  /\ UNCHANGED <<mainOther, qi, elapsed, devState, queued, lifeVars, running,
                 timeoutReported, reportedFrames, formatVars, submitVars,
                 timedOut>>

\* requestCompleted.connect(requestComplete); signal(SIGINT, signalHandler);
MainInstall ==
  /\ pcMain = "install"
  /\ sigInstalled' = TRUE
  /\ pcMain' = "start"
  /\ UNCHANGED <<mainOther, retCode, qi, elapsed, devState, queued,
                 buffersFreed, deviceReleased, running, timeoutReported,
                 reportedFrames, formatVars, submitVars, timedOut>>

\* camera->start();
MainStart ==
  /\ pcMain = "start"
  /\ devState' = "Running"
  /\ pcMain' = "queue"
  /\ UNCHANGED <<mainOther, retCode, qi, elapsed, queued, lifeVars, running,
                 timeoutReported, reportedFrames, formatVars, submitVars,
                 timedOut>>

\* for (request : requests) camera->queueRequest(request.get());
\* after the last one: captureStart = now
MainQueue ==
  /\ pcMain = "queue"
  /\ \E accept \in BOOLEAN : QueueRequest(InitialTarget(qi), accept)
  /\ initSubmits' = [initSubmits EXCEPT ![InitialTarget(qi)] = @ + 1]
  /\ qi' = qi + 1
  /\ pcMain' = IF qi = NumRequests THEN "loopCheck" ELSE "queue"
  /\ UNCHANGED <<mainOther, retCode, elapsed, devState, lifeVars, running,
                 timeoutReported, reportedFrames, formatVars, timedOut>>

\* while (running ...
\* (captureStart and now are not read after the loop: the clock is dropped)
MainLoopCheck ==
  /\ pcMain = "loopCheck"
  /\ pcMain' = IF ~running THEN "stats"
               ELSE IF prog = "capture" THEN "loopCheck2" ELSE "sleep"
  /\ elapsed' = IF ~running THEN 0 ELSE elapsed
  /\ UNCHANGED <<mainOther, retCode, qi, devState, queued, lifeVars,
                 running, timeoutReported, reportedFrames, formatVars,
                 submitVars, timedOut>>

\* onecam_capture: ... && !frameSaved)
MainLoopCheck2 ==
  /\ pcMain = "loopCheck2"
  /\ pcMain' = IF frameSaved THEN "stats" ELSE "sleep"
  /\ elapsed' = IF frameSaved THEN 0 ELSE elapsed
  /\ UNCHANGED <<mainOther, retCode, qi, devState, queued, lifeVars,
                 running, timeoutReported, reportedFrames, formatVars,
                 submitVars, timedOut>>

\* sleep_for(...); now = steady_clock::now(): the clock has moved on to a
\* later (or the same) sampled reading;
\* if (duration_cast<seconds>(now - captureStart).count() >= bound)
\*   { (onecam_capture: printf("Timeout waiting for frame\n");) running = false; }
MainSleep ==
  /\ pcMain = "sleep"
  /\ elapsed' \in {t \in ClockSamples : t >= elapsed}
  /\ IF elapsed' >= TimeoutSec
     THEN /\ running' = FALSE
          /\ timedOut' = TRUE
          /\ timeoutReported' = (timeoutReported \/ prog = "capture")
     ELSE UNCHANGED <<running, timedOut, timeoutReported>>
  /\ pcMain' = "loopCheck"
  /\ UNCHANGED <<mainOther, retCode, qi, devState, queued, lifeVars,
                 reportedFrames, formatVars, submitVars>>

\* final statistics: printf("Captured %u frames ...", frameCount.load(), ...)
MainStats ==
  /\ pcMain = "stats"
  /\ reportedFrames' = frameCount
  /\ pcMain' = TeardownSucc("stats")
  /\ UNCHANGED <<mainOther, retCode, qi, elapsed, devState, queued, lifeVars,
                 running, timeoutReported, formatVars, submitVars, timedOut>>

\* camera->stop(); sleep_for(100ms);
MainStop ==
  /\ pcMain = "stop"
  /\ devState' = "Stopped"
  /\ pcMain' = TeardownSucc("stop")
  /\ UNCHANGED <<mainOther, retCode, qi, elapsed, queued, lifeVars, running,
                 timeoutReported, reportedFrames, formatVars, submitVars,
                 timedOut>>

\* allocator->free(stream); delete allocator;
MainFree ==
  /\ pcMain = "free"
  /\ buffersFreed' = TRUE
  /\ pcMain' = TeardownSucc("free")
  /\ UNCHANGED <<mainOther, retCode, qi, elapsed, devState, queued,
                 sigInstalled, deviceReleased, running, timeoutReported,
                 reportedFrames, formatVars, submitVars, timedOut>>

\* camera->release(); camera.reset(); cameraManager->stop(); return 0;
MainRelease ==
  /\ pcMain = "release"
  /\ deviceReleased' = TRUE
  /\ pcMain' = TeardownSucc("release")
  /\ retCode' = 0
  /\ UNCHANGED <<mainOther, qi, elapsed, devState, queued, sigInstalled,
                 buffersFreed, running, timeoutReported, reportedFrames,
                 formatVars, submitVars, timedOut>>

Next ==
  \/ MainMgrStart \/ MainCameras \/ MainConfigure \/ MainAllocate
  \/ MainCreateRequests \/ MainInstall \/ MainStart \/ MainQueue
  \/ MainLoopCheck \/ MainLoopCheck2 \/ MainSleep
  \/ MainStats \/ MainStop \/ MainFree \/ MainRelease
  \/ SignalHandler
  \/ DeviceComplete \/ DeviceCancel
  \/ CbEntry \/ CbDecide \/ CbSave \/ CbReport \/ CbPrint \/ CbChkSaved
  \/ CbChkRunning \/ CbRequeue

Spec == Init /\ [][Next]_vars


\* ======================================================== checked properties
PostLoop == {"stats", "stop", "free", "release", "exit"}

\* C1: no request is queued to the device while the device still holds it:
\* the initial loop queues each request exactly once, and a request enters
\* the device again only through the callback that handles its own completion.
C1_NoDoubleSubmit ==
  /\ [](/\ ~dupSubmit
        /\ \A r \in Requests :
             /\ initSubmits[r] <= 1
             /\ (qi > NumRequests => initSubmits[r] = 1)
             /\ (queued[r] => cbpc[r] = "none" /\ reqStatus[r] = "RequestPending"))
  /\ [][\A r \in Requests :
          (queued'[r] /\ ~queued[r]) =>
             \/ (pcMain = "queue" /\ qi = r)
             \/ (cbpc[r] = "requeue" /\ cbpc'[r] = "none")]_vars

\* a request completed, was queued again by its callback, and is at the device
C1_Witness ==
  /\ delivered > 0
  /\ qi > NumRequests
  /\ \E r \in Requests : queued[r]
  /\ \E r \in Requests : queued[r] /\ reqStatus[r] = "RequestPending"
                          /\ initSubmits[r] = 1 /\ firstCb = -1

\* C2 (as claimed): once signalHandler has set running = false, no completion
\* callback calls queueRequest any more, whatever point it had reached.
C2_NoQueueAfterSignal ==
  [][sigFired => \A r \in Requests :
                    ~(cbpc[r] = "requeue" /\ cbpc'[r] # "requeue")]_vars

\* C3 (as claimed): in onecam_capture at most one frame is ever persisted, and
\* when the callback of the first non-cancelled completion has returned exactly
\* one frame is persisted and running is false.
C3_ExactlyOneFrame ==
  prog = "capture" =>
    /\ persisted <= 1
    /\ (firstCb = -1 => (persisted = 1 /\ ~running))

\* C4: buffers are freed only after the stream was stopped, the device is
\* released only after the buffers were freed.
C4_TeardownOrder ==
  /\ [](buffersFreed => devState = "Stopped")
  /\ [](deviceReleased => buffersFreed)
  /\ [][(buffersFreed' /\ ~buffersFreed) => devState = "Stopped"]_vars
  /\ [][(deviceReleased' /\ ~deviceReleased) => buffersFreed]_vars

\* main returned after a complete teardown
C4_Witness ==
  pcMain = "exit" /\ devState = "Stopped" /\ buffersFreed /\ deviceReleased

\* C5 (as claimed): when the wait loop ended by its timeout and nothing else
\* ended the session, running is false and a timeout was reported.
C5_TimeoutReported ==
  (timedOut /\ ~sigFired /\ ~frameSaved /\ pcMain \in PostLoop)
     => (~running /\ timeoutReported)

\* C6: the callback for a cancelled request returns at once and changes no
\* counter, flag, file, status line or queue.
C6_CancelledIsNoOp ==
  [][\A r \in Requests :
       (cbpc[r] = "entry" /\ reqStatus[r] = "RequestCancelled"
          /\ cbpc'[r] # "entry")
       => /\ cbpc'[r] = "none"
          /\ UNCHANGED <<frameCount, frameSaved, saveNextFrame, running,
                         persisted, wrStatus, fileBytes, statusLines,
                         timeoutReported, queued, reqStatus, initSubmits>>]_vars

\* the callback of a cancelled request has returned (nothing resets the
\* status of a request that is not queued again) in a session with frames
C6_Witness ==
  /\ \E r \in Requests : reqStatus[r] = "RequestCancelled" /\ cbpc[r] = "none"
  /\ frameCount > 0
  /\ running = FALSE

\* the row width of the specification: width * bitsPerPixel / 8, truncated
LogicalRowBytes(w, bpp) == (w * bpp) \div 8

\* rows 0 .. h-1, the first lrb bytes of each
PackedRows(h, stride, lrb) ==
  [k \in 1..(h * lrb) |->
     SrcByte(((k - 1) \div lrb) * stride + ((k - 1) % lrb))]

\* C7 (as claimed): with stride >= logicalRowBytes and length >= height*stride
\* the file holds exactly the height rows of logicalRowBytes bytes each.
C7_PackedOutput ==
  LET lrb == LogicalRowBytes(imageWidth, bitsPerPixel) IN
  (wrStatus = "written" /\ imageStride >= lrb
     /\ planeLen >= imageHeight * imageStride)
  => fileBytes = PackedRows(imageHeight, imageStride, lrb)

\* C8 (as claimed): the writer reads no byte outside the mapping, and when
\* height * stride exceeds the plane length it writes nothing.
C8_BoundChecked ==
  wpc = "done" =>
    /\ ~overRead
    /\ (imageHeight * imageStride > planeLen
          => wrStatus \notin {"written", "fault"})

\* tags that contain none of the names the table knows
KnownNames == {XRGB8888, ARGB8888, XBGR8888, RGB888, BGR888, YUYV, UYVY,
               YUV420, YV12, NV12, NV21}
Unrecognized(fmt) == \A n \in KnownNames : ~Find(fmt, n)

\* C9 (as claimed): the table of plane counts and bits per pixel.
C9_FormatTable ==
  wpc \in {"save", "done"} =>
    /\ (pixelFormat \in {XRGB8888, ARGB8888, XBGR8888}
          => numPlanes = 1 /\ bitsPerPixel = 32)
    /\ (pixelFormat \in {YUV420, YV12} => numPlanes = 3 /\ bitsPerPixel = 12)
    /\ (pixelFormat \in {NV12, NV21} => numPlanes = 2 /\ bitsPerPixel = 12)
    /\ (pixelFormat \in {YUYV, UYVY} => numPlanes = 1 /\ bitsPerPixel = 16)
    /\ (Unrecognized(pixelFormat) => numPlanes = 1 /\ bitsPerPixel = 8)

\* C10 (as claimed): the row width the writer uses is width * bitsPerPixel / 8
\* with the division applied to the product.
C10_RowBytes ==
  rowBytes # -1 => rowBytes = LogicalRowBytes(imageWidth, bitsPerPixel)

\* C11 (as claimed): when mmap fails in the only persistence attempt of an
\* onecam_capture session, the frame is counted, the session is not treated
\* as having saved its frame, and nothing but the signal or the timeout has
\* cleared running.
C11_MmapFailureContinues ==
  (prog = "capture" /\ wrStatus = "mmapFailed" /\ persisted = 0)
    => /\ frameCount >= 1
       /\ ~frameSaved
       /\ (running \/ sigFired \/ timedOut)

\* C12 (as claimed): the value main returns tells the three outcomes apart.
\* An onecam_capture session that reached its goal returns 0, so a session
\* that ran its whole teardown and was ended by the timeout alone or by the
\* signal alone returns some other value.
C12_ExitStatusReflectsOutcome ==
  (prog = "capture" /\ pcMain = "exit" /\ deviceReleased
     /\ ~frameSaved /\ (timedOut # sigFired))
    => retCode # 0

C14_FastPathEquivalence ==
  LET lrb == LogicalRowBytes(imageWidth, bitsPerPixel) IN
  (wpc = "done" /\ wrStatus = "written" /\ imageStride = lrb
     /\ planeLen >= imageHeight * imageStride)
  => /\ fileBytes = RowCopyBytes(imageHeight, imageStride, lrb, planeLen, 0)
     /\ fileBytes = FastPathBytes(imageHeight * imageStride)

\* requests outstanding at the device
AtDevice == {r \in Requests : queued[r]}

\* requests the application holds: in their completion callback, completed
\* or cancelled and not queued again, or not taken by the device
HeldByApp ==
  {r \in Requests : cbpc[r] # "none" \/ reqStatus[r] # "RequestPending"
                      \/ ~queued[r]}

\* C15: every request of the pool is either outstanding at the device or held
\* by the application, never both and never neither; the two groups add up to
\* the pool size, and no request is handed to the device a second time while
\* the device holds it.
C15_PoolConserved ==
  /\ AtDevice \cap HeldByApp = {}
  /\ AtDevice \cup HeldByApp = Requests
  /\ Cardinality(AtDevice) + Cardinality(HeldByApp) = NumRequests
  /\ ~dupSubmit

\* onecam_frame after the first callback returned: one request is back at the
\* device while the callback of another is running
C15_Witness ==
  /\ prog = "frame" /\ firstCb = -1
  /\ \E r \in Requests : r \in AtDevice /\ initSubmits[r] = 1
  /\ \E q \in Requests : q \in HeldByApp /\ cbpc[q] = "chkRunning"

\* what main (the run controller) can read or report: the statics it tests,
\* what it prints and the value it returns
ControllerView ==
  <<running, frameCount, frameSaved, saveNextFrame, timeoutReported,
    statusLines, reportedFrames, retCode>>

\* C16 (as claimed): when the device rejects the queueRequest of a completion
\* callback, the failure is recorded where the run controller sees it: the
\* step that leaves the request with the application changes the
\* controller's view.
C16_RejectionCounted ==
  [][\A r \in Requests :
       (cbpc[r] = "requeue" /\ cbpc'[r] = "none" /\ ~queued'[r])
         => ControllerView' # ControllerView]_vars

\* C17: in onecam_capture saveFrameAsRAW is invoked at most once in a
\* session, however the completion callbacks interleave.
C17_SaveAtMostOnce ==
  prog = "capture" => saveCalls <= 1

\* two completions were counted and handled by overlapping callbacks, and one
\* of them invoked saveFrameAsRAW
C17_Witness ==
  /\ prog = "capture" /\ ~serialized
  /\ saveCalls = 1 /\ frameCount = 2
  /\ \E r \in Requests : cbpc[r] = "report"
  /\ \E q \in Requests : cbpc[q] = "chkSaved"

\* callbacks of non-cancelled completions that have not yet executed
\* frameCount++
BeforeIncrement ==
  {r \in Requests : cbpc[r] = "entry" /\ reqStatus[r] = "RequestComplete"}

\* C18: frameCount always equals the number of non-cancelled completion
\* callbacks that have executed the increment, and the count main prints at
\* teardown is the value the counter has at that read.
C18_CounterExact ==
  /\ [](/\ frameCount = delivered - Cardinality(BeforeIncrement)
        /\ (reportedFrames # -1 => reportedFrames <= frameCount))
  /\ [][reportedFrames' # reportedFrames
          => (reportedFrames' = frameCount /\ frameCount' = frameCount)]_vars

\* main printed its count while a callback was in flight, which incremented
\* the counter afterwards, and another completion is waiting to be counted
C18_Witness ==
  /\ ~serialized
  /\ reportedFrames >= 1 /\ frameCount > reportedFrames
  /\ BeforeIncrement # {}

C20_SerializedNeverResubmits ==
  /\ []((prog = "capture" /\ serialized) =>
          /\ \A r \in Requests :
               /\ cbpc[r] \notin {"chkRunning", "requeue"}
               /\ initSubmits[r] <= 1
               /\ (qi > NumRequests => initSubmits[r] = 1)
          /\ ((firstCb = -1 /\ pcMain # "crashed") => frameSaved))
  /\ [][(prog = "capture" /\ serialized) =>
          \A r \in Requests :
            (queued'[r] /\ ~queued[r]) =>
               (pcMain = "queue" /\ qi = r /\ initSubmits[r] = 0)]_vars

\* a second completion was counted and its callback returned at the
\* frameSaved check, after the initial loop had queued every request
C20_Witness ==
  /\ prog = "capture" /\ serialized
  /\ qi > NumRequests
  /\ frameCount = 2 /\ frameSaved /\ saveCalls = 1
  /\ \A r \in Requests : cbpc[r] = "none" /\ ~queued[r]

====
